---- MODULE Spec2Model ----
(***************************************************************************)
(* Beam-search caption generation of Apache Tika's image captioning        *)
(* service: the classes Caption, TopN and CaptionGenerator of              *)
(* caption_generator.py.                                                   *)
(*                                                                         *)
(* Five specifications share the data model:                               *)
(*   Spec      one call of CaptionGenerator.beam_search against a model    *)
(*             whose softmax output is chosen freely from Dists;           *)
(*   FairSpec  Spec with weak fairness of its steps, for termination;      *)
(*   SpecTopN  one TopN object driven by an arbitrary client;              *)
(*   SpecTwo   two calls of beam_search interleaved, against a model that  *)
(*             is a function of its inputs;                                *)
(*   SpecLong  SpecTwo with captions of up to MaxLong words.               *)
(*                                                                         *)
(* Numbers.  A probability is [m, e], the decimal m * 10^-e with m in      *)
(* 1..9.  Log-probabilities are integers in units of 1e-6 nat.  A score is *)
(* the exact fraction [num, den] (den > 0), so that the length-normalised  *)
(* score logprob / len^alpha needs no rounding.                            *)
(***************************************************************************)
EXTENDS Integers, Sequences, FiniteSets, Bags, TLC

VARIABLES
  \* ---- one beam_search call ----
  pc,                           \* position in beam_search
  beam_size,                    \* self.beam_size
  max_caption_length,           \* self.max_caption_length
  length_normalization_factor,  \* self.length_normalization_factor
  partial_captions,             \* TopN of partial captions
  complete_captions,            \* TopN of complete captions
  iter,                         \* iterations of the for loop begun so far
  partial_captions_list,        \* local of the last iteration
  softmax,                      \* last answer of model.inference_step
  new_states,                   \* last answer of model.inference_step
  result,                       \* the list beam_search returned
  raised,                       \* the exception beam_search raised
  calls,                        \* number of calls made to the model
  \* ---- one TopN object and its client ----
  top,                          \* the TopN object
  pushed,                       \* items pushed since the last reset
  npush,                        \* items the client has created so far
  last,                         \* the client's last call and its outcome
  \* ---- two beam_search calls in progress at once ----
  frame                         \* the local variables of each call

beam_vars == <<pc, beam_size, max_caption_length, length_normalization_factor,
               partial_captions, complete_captions, iter,
               partial_captions_list, softmax, new_states, result, raised,
               calls>>
topn_vars == <<top, pushed, npush, last>>
vars == <<beam_vars, topn_vars, frame>>

-----------------------------------------------------------------------------
(* Bounds of the model *)

MaxBeam == 2
MaxLen == 3
MaxN == 3
MaxPushes == 4
MaxLong == 4

-----------------------------------------------------------------------------
(* Sequence helpers; Python positions are 0-based *)

At(heap, pos) == heap[pos + 1]
Put(heap, pos, x) == [heap EXCEPT ![pos + 1] = x]
Front(s) == SubSeq(s, 1, Len(s) - 1)
Last(s) == s[Len(s)]

-----------------------------------------------------------------------------
(* Caption *)

Caption(sentence, state, logprob, score) ==
  [sentence |-> sentence, state |-> state, logprob |-> logprob, score |-> score]

Score(num, den) == [num |-> num, den |-> den]

\* Caption.__lt__: self.score < other.score
Lt(a, b) == a.score.num * b.score.den < b.score.num * a.score.den

-----------------------------------------------------------------------------
(* heapq, as TopN.push uses it *)

RECURSIVE siftdown_loop(_, _, _, _)
siftdown_loop(heap, startpos, pos, newitem) ==
  IF pos > startpos
  THEN LET parentpos == (pos - 1) \div 2
           parent == At(heap, parentpos)
       IN  IF Lt(newitem, parent)
           THEN siftdown_loop(Put(heap, pos, parent), startpos, parentpos, newitem)
           ELSE Put(heap, pos, newitem)
  ELSE Put(heap, pos, newitem)

siftdown(heap, startpos, pos) ==
  siftdown_loop(heap, startpos, pos, At(heap, pos))

RECURSIVE siftup_loop(_, _, _)
siftup_loop(heap, pos, childpos) ==
  IF childpos < Len(heap)
  THEN LET rightpos == childpos + 1
           c == IF rightpos < Len(heap)
                   /\ ~Lt(At(heap, childpos), At(heap, rightpos))
                THEN rightpos ELSE childpos
       IN  siftup_loop(Put(heap, pos, At(heap, c)), c, 2 * c + 1)
  ELSE [heap |-> heap, pos |-> pos]

siftup(heap, pos) ==
  LET newitem == At(heap, pos)
      r == siftup_loop(heap, pos, 2 * pos + 1)
  IN  siftdown(Put(r.heap, r.pos, newitem), pos, r.pos)

heappush(heap, item) == siftdown(Append(heap, item), 0, Len(heap))

\* mutant of heappushpop: the smallest item is replaced without a comparison
heappushpop_always(heap, item) ==
  IF Len(heap) > 0 THEN siftup(Put(heap, 0, item), 0) ELSE heap

\* mutant of heappushpop: an item equal to the smallest one replaces it
heappushpop_on_equal(heap, item) ==
  IF Len(heap) > 0 /\ ~Lt(item, At(heap, 0))
  THEN siftup(Put(heap, 0, item), 0)
  ELSE heap

\* the item heappushpop returns is dropped by TopN.push
heappushpop(heap, item) ==
  IF Len(heap) > 0 /\ Lt(At(heap, 0), item)
  THEN siftup(Put(heap, 0, item), 0)
  ELSE heap

\* list.sort(reverse=True): stable, equal items keep their order
RECURSIVE insert_desc(_, _)
insert_desc(s, x) ==
  IF s = <<>> THEN <<x>>
  ELSE IF Lt(Head(s), x) THEN <<x>> \o s
  ELSE <<Head(s)>> \o insert_desc(Tail(s), x)

RECURSIVE sort_reverse(_)
sort_reverse(data) ==
  IF data = <<>> THEN <<>>
  ELSE insert_desc(sort_reverse(Front(data)), Last(data))

-----------------------------------------------------------------------------
(* TopN.  _data is None is the field none; data is then <<>>. *)

TopN(n) == [n |-> n, data |-> <<>>, none |-> FALSE]

\* assert self._data is not None
size_raises(t) == t.none

\* mutant of push_raises: push does not check the state
push_never_raises(t) == FALSE

push_raises(t) == t.none
extract_raises(t) == t.none

\* mutant of size: an empty set reports one element
size_at_least_one(t) == IF Len(t.data) = 0 THEN 1 ELSE Len(t.data)


size(t) == Len(t.data)

\* mutant of push: an item pushed on a full set is dropped
push_first_come(t, x) ==
  IF Len(t.data) < t.n
  THEN [t EXCEPT !.data = heappush(@, x)]
  ELSE t

\* mutant of push: the capacity is never checked
push_unbounded(t, x) == [t EXCEPT !.data = heappush(@, x)]

push(t, x) ==
  IF Len(t.data) < t.n
  THEN [t EXCEPT !.data = heappush(@, x)]
  ELSE [t EXCEPT !.data = heappushpop(@, x)]

\* mutant of extract_data: the sort flag is ignored
extract_data_unsorted(t, sort) == t.data

\* the list extract returns
extract_data(t, sort) == IF sort THEN sort_reverse(t.data) ELSE t.data

\* mutant of extract: the object is left empty but usable
extract_leaves_usable(t) == [t EXCEPT !.data = <<>>]

\* the object extract leaves behind
extract(t) == [t EXCEPT !.data = <<>>, !.none = TRUE]

\* mutant of reset: the list is emptied but the object stays exhausted
reset_stays_exhausted(t) == [t EXCEPT !.data = <<>>]

reset(t) == [t EXCEPT !.data = <<>>, !.none = FALSE]

-----------------------------------------------------------------------------
(* A client of one TopN object: SpecTopN *)

InitialState == [step |-> 0, pos |-> 0]

NoCaption == Caption(<<>>, InitialState, 0, Score(0, 1))

Scores == {-3, -2, -1}

\* the k-th item the client creates, with score s
Item(k, s) == Caption(<<k>>, InitialState, s, Score(s, 1))

Call(op, x, sort, before, exc, ret_list, ret_size) ==
  [op |-> op, x |-> x, sort |-> sort, before |-> before, raised |-> exc,
   ret_list |-> ret_list, ret_size |-> ret_size]

BeamIdle ==
  /\ pc = "idle"
  /\ beam_size = 0
  /\ max_caption_length = 0
  /\ length_normalization_factor = 0
  /\ partial_captions = TopN(0)
  /\ complete_captions = TopN(0)
  /\ iter = 0
  /\ partial_captions_list = <<>>
  /\ softmax = <<>>
  /\ new_states = <<>>
  /\ result = <<>>
  /\ raised = "none"
  /\ calls = [feed_image |-> 0, inference_step |-> 0]

InitTopN ==
  /\ BeamIdle
  /\ frame = <<>>
  /\ \E n \in 0..MaxN : top = TopN(n)
  /\ pushed = <<>>
  /\ npush = 0
  /\ last = Call("new", NoCaption, FALSE, TopN(0), "none", <<>>, 0)

TSize ==
  /\ last' = IF size_raises(top)
             THEN Call("size", NoCaption, FALSE, top, "AssertionError", <<>>, 0)
             ELSE Call("size", NoCaption, FALSE, top, "none", <<>>, size(top))
  /\ UNCHANGED <<top, pushed, npush>>
  /\ UNCHANGED <<beam_vars, frame>>

TPush ==
  /\ npush < MaxPushes
  /\ \E s \in Scores :
       LET x == Item(npush + 1, s)
       IN  IF push_raises(top)
           THEN /\ last' = Call("push", x, FALSE, top, "AssertionError", <<>>, 0)
                /\ UNCHANGED <<top, pushed>>
           ELSE /\ last' = Call("push", x, FALSE, top, "none", <<>>, 0)
                /\ top' = push(top, x)
                /\ pushed' = Append(pushed, x)
  /\ npush' = npush + 1
  /\ UNCHANGED <<beam_vars, frame>>

TExtract ==
  /\ \E sort \in BOOLEAN :
       IF extract_raises(top)
       THEN /\ last' = Call("extract", NoCaption, sort, top, "AssertionError", <<>>, 0)
            /\ UNCHANGED top
       ELSE /\ last' = Call("extract", NoCaption, sort, top, "none",
                            extract_data(top, sort), 0)
            /\ top' = extract(top)
  /\ UNCHANGED <<pushed, npush>>
  /\ UNCHANGED <<beam_vars, frame>>

TReset ==
  /\ last' = Call("reset", NoCaption, FALSE, top, "none", <<>>, 0)
  /\ top' = reset(top)
  /\ pushed' = <<>>
  /\ UNCHANGED npush
  /\ UNCHANGED <<beam_vars, frame>>

NextTopN == TSize \/ TPush \/ TExtract \/ TReset

SpecTopN == InitTopN /\ [][NextTopN]_vars

-----------------------------------------------------------------------------
(* Probabilities and the model's answers *)

P(m, e) == [m |-> m, e |-> e]

\* p < q on floats
PLt(p, q) == p.e > q.e \/ (p.e = q.e /\ p.m < q.m)

\* the literal 1e-12 of beam_search
Floor == P(1, 12)

\* math.log, in units of 1e-6: ln(m) - e * ln(10)
LnDigit == <<0, 693147, 1098612, 1386294, 1609438, 1791759, 1945910,
            2079442, 2197225>>
log(p) == LnDigit[p.m] - p.e * 2302585

\* vocab.start_id, vocab.end_id: the ids of "<S>" and "</S>"
start_id == 0
end_id == 1

\* the word ids of a three-word vocabulary
Vocab == {0, 1, 2}

\* softmax rows the model may answer with; row[w + 1] is the probability of w
Dists ==
  { << P(5, 2), P(9, 1), P(5, 2) >>,     \* 0.05  0.9   0.05   end first
    << P(5, 1), P(4, 1), P(1, 1) >>,     \* 0.5   0.4   0.1    end second
    << P(5, 1), P(1, 1), P(4, 1) >>,     \* 0.5   0.1   0.4    end last
    << P(2, 1), P(4, 1), P(4, 1) >>,     \* 0.2   0.4   0.4    end ties, lower id
    << P(4, 1), P(4, 1), P(2, 1) >>,     \* 0.4   0.4   0.2    end ties, higher id
    << P(1, 0), P(1, 13), P(1, 13) >>,   \* 1.0   1e-13 1e-13  one word only
    << P(1, 13), P(1, 12), P(1, 0) >>,   \* 1e-13 1e-12 1.0    end at the floor
    << P(1, 13), P(1, 13), P(1, 13) >> } \* nothing reaches the floor

\* len(sentence) ** self.length_normalization_factor
RECURSIVE Pow(_, _)
Pow(b, k) == IF k = 0 THEN 1 ELSE b * Pow(b, k - 1)

-----------------------------------------------------------------------------
(* CaptionGenerator.beam_search *)

\* list(enumerate(word_probabilities))
RECURSIVE enumerate(_, _)
enumerate(row, w) ==
  IF w >= Len(row) THEN <<>>
  ELSE <<[w |-> w, p |-> row[w + 1]]>> \o enumerate(row, w + 1)

\* mutant of insert_word: the order of equal probabilities changes once a
\* call has returned
RECURSIVE insert_word_unstable(_, _)
insert_word_unstable(s, x) ==
  IF s = <<>> THEN <<x>>
  ELSE IF \/ PLt(Head(s).p, x.p)
          \/ /\ ~PLt(x.p, Head(s).p)
             /\ \E q \in DOMAIN frame : frame[q].pc = "done"
       THEN <<x>> \o s
  ELSE <<Head(s)>> \o insert_word_unstable(Tail(s), x)

\* mutant of insert_word: of equal probabilities the higher word id comes first
RECURSIVE insert_word_higher_first(_, _)
insert_word_higher_first(s, x) ==
  IF s = <<>> THEN <<x>>
  ELSE IF ~PLt(x.p, Head(s).p) THEN <<x>> \o s
  ELSE <<Head(s)>> \o insert_word_higher_first(Tail(s), x)

\* words_and_probs.sort(key=lambda x: -x[1]): stable, highest probability first
RECURSIVE insert_word(_, _)
insert_word(s, x) ==
  IF s = <<>> THEN <<x>>
  ELSE IF PLt(Head(s).p, x.p) THEN <<x>> \o s
  ELSE <<Head(s)>> \o insert_word(Tail(s), x)

RECURSIVE sort_words(_)
sort_words(wp) ==
  IF wp = <<>> THEN <<>>
  ELSE insert_word(sort_words(Front(wp)), Last(wp))

\* words_and_probs[0:self.beam_size]
most_probable(wp) ==
  SubSeq(wp, 1, IF beam_size < Len(wp) THEN beam_size ELSE Len(wp))

words_and_probs(word_probabilities) ==
  most_probable(sort_words(enumerate(word_probabilities, 0)))

\* mutant of skipped: no candidate is skipped
skipped_never(p) == FALSE

\* if p < 1e-12: continue
skipped(p) == PLt(p, Floor)

\* mutant of new_beam: the logprob of the parent is dropped
new_beam_own_logprob(partial_caption, state, w, p) ==
  Caption(Append(partial_caption.sentence, w), state, log(p), Score(log(p), 1))

\* mutant of new_beam: the logarithm is subtracted
new_beam_minus_log(partial_caption, state, w, p) ==
  LET sentence == Append(partial_caption.sentence, w)
      logprob == partial_caption.logprob - log(p)
  IN  IF w = end_id /\ length_normalization_factor > 0
      THEN Caption(sentence, state, logprob,
                   Score(logprob, Pow(Len(sentence), length_normalization_factor)))
      ELSE Caption(sentence, state, logprob, Score(logprob, 1))

\* mutant of new_beam: the score of every caption is divided by its length
new_beam_normalize_all(partial_caption, state, w, p) ==
  LET sentence == Append(partial_caption.sentence, w)
      logprob == partial_caption.logprob + log(p)
  IN  IF length_normalization_factor > 0
      THEN Caption(sentence, state, logprob,
                   Score(logprob, Pow(Len(sentence), length_normalization_factor)))
      ELSE Caption(sentence, state, logprob, Score(logprob, 1))

\* mutant of new_beam: the sentence of the parent is dropped
new_beam_only_word(partial_caption, state, w, p) ==
  LET sentence == <<w>>
      logprob == partial_caption.logprob + log(p)
  IN  IF w = end_id /\ length_normalization_factor > 0
      THEN Caption(sentence, state, logprob,
                   Score(logprob, Pow(Len(sentence), length_normalization_factor)))
      ELSE Caption(sentence, state, logprob, Score(logprob, 1))

\* the Caption built for word w with probability p
new_beam(partial_caption, state, w, p) ==
  LET sentence == Append(partial_caption.sentence, w)
      logprob == partial_caption.logprob + log(p)
  IN  IF w = end_id /\ length_normalization_factor > 0
      THEN Caption(sentence, state, logprob,
                   Score(logprob, Pow(Len(sentence), length_normalization_factor)))
      ELSE Caption(sentence, state, logprob, Score(logprob, 1))

\* the two TopN of a call and the exception raised so far
Acc(partial, complete, exc) ==
  [partial |-> partial, complete |-> complete, raised |-> exc]

\* mutant of push_beam: every beam goes to partial_captions
push_beam_never_complete(acc, beam) ==
  IF acc.raised # "none" THEN acc
  ELSE IF push_raises(acc.partial)
       THEN [acc EXCEPT !.raised = "AssertionError"]
       ELSE [acc EXCEPT !.partial = push(@, beam)]

\* complete_captions.push(beam) or partial_captions.push(beam)
push_beam(acc, beam) ==
  IF acc.raised # "none" THEN acc
  ELSE IF Last(beam.sentence) = end_id
  THEN IF push_raises(acc.complete)
       THEN [acc EXCEPT !.raised = "AssertionError"]
       ELSE [acc EXCEPT !.complete = push(@, beam)]
  ELSE IF push_raises(acc.partial)
       THEN [acc EXCEPT !.raised = "AssertionError"]
       ELSE [acc EXCEPT !.partial = push(@, beam)]

\* mutant of expand_words: for a skipped candidate the parent is kept
RECURSIVE expand_words_keeps_parent(_, _, _, _)
expand_words_keeps_parent(acc, partial_caption, state, wp) ==
  IF wp = <<>> THEN acc
  ELSE IF skipped(Head(wp).p)
  THEN expand_words_keeps_parent(push_beam(acc, partial_caption),
                                 partial_caption, state, Tail(wp))
  ELSE expand_words_keeps_parent(
         push_beam(acc, new_beam(partial_caption, state, Head(wp).w, Head(wp).p)),
         partial_caption, state, Tail(wp))

\* for w, p in words_and_probs: ...
RECURSIVE expand_words(_, _, _, _)
expand_words(acc, partial_caption, state, wp) ==
  IF wp = <<>> THEN acc
  ELSE IF skipped(Head(wp).p)
  THEN expand_words(acc, partial_caption, state, Tail(wp))
  ELSE expand_words(
         push_beam(acc, new_beam(partial_caption, state, Head(wp).w, Head(wp).p)),
         partial_caption, state, Tail(wp))

\* for i, partial_caption in enumerate(partial_captions_list): ...
RECURSIVE expand_captions(_, _, _, _, _)
expand_captions(acc, list, sm, states, i) ==
  IF i > Len(list) THEN acc
  ELSE expand_captions(
         expand_words(acc, list[i], states[i], words_and_probs(sm[i])),
         list, sm, states, i + 1)

\* mutant of LoopGuard: range(self.max_caption_length)
LoopGuard_one_more == iter < max_caption_length

\* mutant of LoopGuard: range(2 * (self.max_caption_length - 1))
LoopGuard_twice == iter < 2 * (max_caption_length - 1)

\* mutant of in_range: range(self.max_caption_length)
in_range_inclusive(i) == i <= max_caption_length - 1

\* i in range(self.max_caption_length - 1)
in_range(i) == i < max_caption_length - 1

\* for _ in range(self.max_caption_length - 1)
LoopGuard == in_range(iter)

\* mutant of fall_back: the partial captions are never returned
fall_back_never(complete, partial) == FALSE

\* mutant of fall_back: falls back too when a partial caption outscores
\* every complete one
fall_back_if_better(complete, partial) ==
  \/ size(complete) = 0
  \/ \E i \in 1..Len(partial.data) :
       \A j \in 1..Len(complete.data) : Lt(complete.data[j], partial.data[i])

\* if not complete_captions.size(): complete_captions = partial_captions
fall_back(complete, partial) == size(complete) = 0

\* mutant of returned: partial captions are merged into the complete ones
returned_mixture(complete, partial) ==
  sort_reverse(complete.data \o partial.data)

\* return complete_captions.extract(sort=True), after the fallback
returned(complete, partial) ==
  extract_data(IF fall_back(complete, partial) THEN partial ELSE complete, TRUE)

TopNIdle ==
  /\ top = TopN(0)
  /\ pushed = <<>>
  /\ npush = 0
  /\ last = Call("new", NoCaption, FALSE, TopN(0), "none", <<>>, 0)

Init ==
  /\ pc = "start"
  /\ beam_size \in 0..MaxBeam
  /\ max_caption_length \in 0..MaxLen
  /\ length_normalization_factor \in {0, 1}
  /\ partial_captions = TopN(0)
  /\ complete_captions = TopN(0)
  /\ iter = 0
  /\ partial_captions_list = <<>>
  /\ softmax = <<>>
  /\ new_states = <<>>
  /\ result = <<>>
  /\ raised = "none"
  /\ calls = [feed_image |-> 0, inference_step |-> 0]
  /\ TopNIdle
  /\ frame = <<>>

\* model.feed_image raises
FeedImageRaises ==
  /\ pc = "start"
  /\ pc' = "error"
  /\ raised' = "ModelFault"
  /\ calls' = [calls EXCEPT !.feed_image = @ + 1]
  /\ UNCHANGED <<beam_size, max_caption_length, length_normalization_factor,
                 partial_captions, complete_captions, iter,
                 partial_captions_list, softmax, new_states, result>>
  /\ UNCHANGED <<topn_vars, frame>>

\* feed_image, the initial beam and the two TopN
FeedImage ==
  /\ pc = "start"
  /\ calls' = [calls EXCEPT !.feed_image = @ + 1]
  /\ LET initial_beam == Caption(<<start_id>>, InitialState, 0, Score(0, 1))
     IN  partial_captions' = push(TopN(beam_size), initial_beam)
  /\ complete_captions' = TopN(beam_size)
  /\ pc' = "loop"
  /\ UNCHANGED <<beam_size, max_caption_length, length_normalization_factor,
                 iter, partial_captions_list, softmax, new_states, result,
                 raised>>
  /\ UNCHANGED <<topn_vars, frame>>

\* mutant of InferenceStepRaises: the fault ends the search with the complete
\* captions found so far
InferenceStepRaises_partial_output ==
  /\ pc = "loop"
  /\ LoopGuard
  /\ ~extract_raises(partial_captions)
  /\ partial_captions_list' = extract_data(partial_captions, FALSE)
  /\ partial_captions' = reset(extract(partial_captions))
  /\ calls' = [calls EXCEPT !.inference_step = @ + 1]
  /\ iter' = iter + 1
  /\ pc' = "done"
  /\ raised' = "ModelFault"
  /\ result' = extract_data(complete_captions, TRUE)
  /\ UNCHANGED <<beam_size, max_caption_length, length_normalization_factor,
                 complete_captions, softmax, new_states>>
  /\ UNCHANGED <<topn_vars, frame>>

\* an iteration in which model.inference_step raises
InferenceStepRaises ==
  /\ pc = "loop"
  /\ LoopGuard
  /\ ~extract_raises(partial_captions)
  /\ partial_captions_list' = extract_data(partial_captions, FALSE)
  /\ partial_captions' = reset(extract(partial_captions))
  /\ calls' = [calls EXCEPT !.inference_step = @ + 1]
  /\ iter' = iter + 1
  /\ pc' = "error"
  /\ raised' = "ModelFault"
  /\ UNCHANGED <<beam_size, max_caption_length, length_normalization_factor,
                 complete_captions, softmax, new_states, result>>
  /\ UNCHANGED <<topn_vars, frame>>

\* one iteration of the for loop
LoopStep ==
  /\ pc = "loop"
  /\ LoopGuard
  /\ iter' = iter + 1
  /\ IF extract_raises(partial_captions)
     THEN /\ pc' = "error"
          /\ raised' = "AssertionError"
          /\ UNCHANGED <<partial_captions, complete_captions,
                         partial_captions_list, softmax, new_states, calls>>
     ELSE LET list == extract_data(partial_captions, FALSE)
          IN  \E sm \in [1..Len(list) -> Dists] :
                /\ softmax' = sm
                /\ LET states == [i \in 1..Len(list) |-> [step |-> iter + 1, pos |-> i - 1]]
                   IN  \E acc \in {expand_captions(
                                      Acc(reset(extract(partial_captions)),
                                          complete_captions, "none"),
                                      list, sm, states, 1)} :
                         /\ partial_captions_list' = list
                         /\ new_states' = states
                         /\ calls' = [calls EXCEPT !.inference_step = @ + 1]
                         /\ partial_captions' = acc.partial
                         /\ complete_captions' = acc.complete
                         /\ IF acc.raised # "none" \/ size_raises(acc.partial)
                            THEN pc' = "error" /\ raised' = "AssertionError"
                            ELSE /\ raised' = "none"
                                 /\ pc' = IF size(acc.partial) = 0
                                          THEN "break" ELSE "loop"
  /\ UNCHANGED <<beam_size, max_caption_length, length_normalization_factor,
                 result>>
  /\ UNCHANGED <<topn_vars, frame>>

\* the fallback and the return
Finish ==
  /\ pc \in {"loop", "break"}
  /\ pc = "loop" => ~LoopGuard
  /\ IF size_raises(complete_captions)
     THEN /\ pc' = "error"
          /\ raised' = "AssertionError"
          /\ UNCHANGED <<partial_captions, complete_captions, result>>
     ELSE LET fb == fall_back(complete_captions, partial_captions)
              chosen == IF fb THEN partial_captions ELSE complete_captions
          IN  IF extract_raises(chosen)
              THEN /\ pc' = "error"
                   /\ raised' = "AssertionError"
                   /\ UNCHANGED <<partial_captions, complete_captions, result>>
              ELSE /\ pc' = "done"
                   /\ raised' = "none"
                   /\ result' = returned(complete_captions, partial_captions)
                   /\ partial_captions' =
                        IF fb THEN extract(partial_captions) ELSE partial_captions
                   /\ complete_captions' =
                        IF fb THEN complete_captions ELSE extract(complete_captions)
  /\ UNCHANGED <<beam_size, max_caption_length, length_normalization_factor,
                 iter, partial_captions_list, softmax, new_states, calls>>
  /\ UNCHANGED <<topn_vars, frame>>

Next == FeedImageRaises \/ FeedImage \/ InferenceStepRaises \/ LoopStep \/ Finish

Spec == Init /\ [][Next]_vars

\* every call of the model returns or raises, and the interpreter keeps running
FairSpec == Spec /\ WF_vars(Next)

\* caption.sentence[1:-1], the words caption_image hands to id_to_word
reported(sentence) == SubSeq(sentence, 2, Len(sentence) - 1)

-----------------------------------------------------------------------------
(* Properties of beam_search *)

Returned == pc = "done"

EndsWithEnd(c) == Last(c.sentence) = end_id

\* a.score >= b.score on the exact fractions
ScoreGeq(a, b) == a.score.num * b.score.den >= b.score.num * a.score.den
ScoreGt(a, b) == a.score.num * b.score.den > b.score.num * a.score.den

Range(s) == {s[i] : i \in DOMAIN s}
SeqToBag(s) == [x \in Range(s) |-> Cardinality({i \in DOMAIN s : s[i] = x})]
SameItems(s, t) == SeqToBag(s) = SeqToBag(t)

\* C1: for beam_size >= 1 and max_caption_length >= 1 the list beam_search
\* returns holds at most beam_size captions, from the complete set or from
\* the fallback frontier.
C1_AtMostBeamSize ==
  (Returned /\ beam_size >= 1 /\ max_caption_length >= 1)
    => Len(result) <= beam_size

\* C1 witness: a full list of complete captions returned after two iterations
C1_Witness ==
  /\ Returned /\ beam_size = 2 /\ iter = 2
  /\ Len(result) = 2
  /\ EndsWithEnd(result[1])

\* C2: the returned list is in descending order of score.
C2_SortedByScore ==
  Returned => \A i \in 1..(Len(result) - 1) : ScoreGeq(result[i], result[i + 1])

\* C2 witness: two captions of different score are returned
C2_Witness ==
  /\ Returned /\ Len(result) = 2
  /\ ScoreGt(result[1], result[2])

\* C3: the returned captions either all end with the end token or none does.
C3_NoMixture ==
  Returned => \/ \A i \in 1..Len(result) : EndsWithEnd(result[i])
              \/ \A i \in 1..Len(result) : ~EndsWithEnd(result[i])

\* C3 witness: complete captions are returned while partial ones were left
C3_Witness ==
  /\ Returned /\ Len(result) >= 1
  /\ \A i \in 1..Len(result) : EndsWithEnd(result[i])
  /\ partial_captions.data # <<>>

\* C4: the return takes the frontier exactly when the complete set is empty;
\* otherwise the result is the content of the complete set, whatever the
\* scores of the partial captions.
C4_FallbackIffEmpty ==
  [][(pc # "done" /\ pc' = "done") =>
       IF complete_captions.data # <<>>
       THEN /\ SameItems(result', complete_captions.data)
            /\ partial_captions' = partial_captions
       ELSE SameItems(result', partial_captions.data)]_vars

\* C4 witness: complete captions returned although a partial caption left in
\* the frontier outscores each of them
C4_Witness ==
  /\ Returned /\ Len(result) >= 1
  /\ \A i \in 1..Len(result) : EndsWithEnd(result[i])
  /\ \E j \in 1..Len(partial_captions.data) :
       \A i \in 1..Len(result) : ScoreGt(partial_captions.data[j], result[i])

-----------------------------------------------------------------------------
(* Properties of TopN *)

ScoresOf(s) == [i \in DOMAIN s |-> s[i].score.num]

Min(a, b) == IF a < b THEN a ELSE b

\* the bag d holds the k highest of the scores in the bag p
HighestOf(d, p, k) ==
  /\ BagCardinality(d) = k
  /\ d \sqsubseteq p
  /\ \A x \in BagToSet(p (-) d) : \A y \in BagToSet(d) : x <= y

\* a score of s that no score of s is below
IsMinimum(m, s) == \A i \in DOMAIN s : ~Lt(s[i], m)

\* C5: a TopN of capacity n >= 1 holds, of the items pushed since the last
\* reset, min(M, n) items whose scores are the highest pushed, and extract
\* returns that many items.
C5_HoldsHighest ==
  top.n >= 1 =>
    /\ ~top.none =>
         /\ SeqToBag(top.data) \sqsubseteq SeqToBag(pushed)
         /\ HighestOf(SeqToBag(ScoresOf(top.data)), SeqToBag(ScoresOf(pushed)),
                      Min(Len(pushed), top.n))
    /\ (last.op = "extract" /\ last.raised = "none") =>
         /\ Len(last.ret_list) = Min(Len(pushed), top.n)
         /\ HighestOf(SeqToBag(ScoresOf(last.ret_list)),
                      SeqToBag(ScoresOf(pushed)), Min(Len(pushed), top.n))

\* C5 witness: four items pushed into a TopN of capacity two, the last one
\* better than the first, and extracted
C5_Witness ==
  /\ top.n = 2 /\ Len(pushed) = 4
  /\ Lt(pushed[1], pushed[4])
  /\ last.op = "extract" /\ last.raised = "none"
  /\ Len(last.ret_list) = 2

PushOnFull ==
  /\ last.op = "push" /\ last.raised = "none"
  /\ last.before.n >= 1
  /\ Len(last.before.data) = last.before.n

\* the pushed item took the place of a minimum-scored element
Replaced ==
  \E m \in Range(last.before.data) :
    /\ IsMinimum(m, last.before.data)
    /\ SeqToBag(top.data) = (SeqToBag(last.before.data) (-) SetToBag({m}))
                              (+) SetToBag({last.x})

\* C6 as stated: a push on a full set replaces the minimum whenever the
\* pushed score is not smaller than it, equal scores included.
C6_ReplacesUnlessSmaller ==
  PushOnFull =>
    IF ~Lt(last.x, last.before.data[1])
    THEN Replaced
    ELSE top = last.before

\* C6 amended: a push on a full set replaces the minimum only when the pushed
\* score is strictly greater; an equal or smaller item is discarded and the
\* set is unchanged.
C6_ReplacesOnlyIfGreater ==
  PushOnFull =>
    /\ IsMinimum(last.before.data[1], last.before.data)
    /\ IF Lt(last.before.data[1], last.x)
       THEN Replaced
       ELSE top = last.before

\* C6 witness: an item with the score of the minimum is pushed on a full set
\* and is discarded
C6_Witness ==
  /\ PushOnFull
  /\ last.x.score = last.before.data[1].score
  /\ top = last.before

\* C7: push on a TopN that was extracted and not reset raises and inserts
\* nothing.
C7_PushAfterExtractFails ==
  (last.op = "push" /\ last.before.none) =>
    /\ last.raised = "AssertionError"
    /\ top = last.before
    /\ top.data = <<>>

\* C7 witness: a push is attempted on an extracted TopN that had items
C7_Witness ==
  /\ last.op = "push" /\ last.before.none
  /\ pushed # <<>>

\* C8: extract returns all items and exhausts the set; size, push and extract
\* on an exhausted set raise and change nothing; reset always succeeds and
\* leaves the set empty and usable, holding nothing pushed before it.
C8_Lifecycle ==
  /\ (last.op = "extract" /\ ~last.before.none) =>
       /\ last.raised = "none"
       /\ SameItems(last.ret_list, last.before.data)
       /\ top.none
  /\ (last.op \in {"size", "push", "extract"} /\ last.before.none) =>
       /\ last.raised = "AssertionError"
       /\ top = last.before
  /\ last.op = "reset" =>
       /\ last.raised = "none"
       /\ top = TopN(last.before.n)
       /\ pushed = <<>>
  /\ (last.op = "size" /\ ~last.before.none) =>
       /\ last.raised = "none"
       /\ last.ret_size = Len(last.before.data)
       /\ (pushed = <<>> => last.ret_size = 0)
  /\ (last.op = "push" /\ ~last.before.none) =>
       /\ last.raised = "none"
       /\ (Len(last.before.data) < last.before.n =>
             SeqToBag(top.data) = SeqToBag(last.before.data) (+) SetToBag({last.x}))
  /\ Range(top.data) \subseteq Range(pushed)

\* C8 witness: an exhausted set that had held items is reset
C8_Witness ==
  /\ last.op = "reset" /\ last.before.none
  /\ npush >= 2
  /\ ~top.none

-----------------------------------------------------------------------------
(* Scenarios of beam_search *)

InitialBeam == Caption(<<start_id>>, InitialState, 0, Score(0, 1))

\* the words of row that come before w in the order of selection
Before(row, w) ==
  {v \in Vocab : PLt(row[w + 1], row[v + 1]) \/ (row[v + 1] = row[w + 1] /\ v < w)}

AtLeastFloor(p) == p = Floor \/ PLt(Floor, p)

\* the end token is the first candidate of row and reaches the floor
EndOnTop(row) == Before(row, end_id) = {} /\ AtLeastFloor(row[end_id + 1])

\* the two first candidates of row are not the end token and reach the floor
TwoWordsOnTop(row) ==
  /\ Cardinality(Before(row, end_id)) >= 2
  /\ Cardinality({v \in Vocab \ {end_id} : AtLeastFloor(row[v + 1])}) >= 2

\* C9 as stated: beam_size 2, max_caption_length 1, no end token emitted:
\* the complete set is empty and two frontier captions are returned in
\* descending order of logprob.
C9_TwoFromFrontier ==
  (Returned /\ beam_size = 2 /\ max_caption_length = 1) =>
    /\ complete_captions.data = <<>>
    /\ Len(result) = 2
    /\ result[1].logprob >= result[2].logprob

\* C9 amended: with beam_size 2 and max_caption_length 1 the loop body never
\* runs: no inference step is made, the complete set is empty and the single
\* initial caption is returned from the frontier.  Two frontier captions in
\* descending order of logprob are returned with max_caption_length 2 when the
\* two most probable words of the single step are not the end token and reach
\* the floor.
C9_InitialFromFrontier ==
  /\ (Returned /\ beam_size = 2 /\ max_caption_length = 1) =>
       /\ calls.inference_step = 0
       /\ complete_captions.data = <<>>
       /\ result = <<InitialBeam>>
  /\ (Returned /\ beam_size = 2 /\ max_caption_length = 2
        /\ TwoWordsOnTop(softmax[1])) =>
       /\ calls.inference_step = 1
       /\ complete_captions.data = <<>>
       /\ Len(result) = 2
       /\ result[1].logprob >= result[2].logprob
       /\ \A i \in 1..2 : /\ ~EndsWithEnd(result[i])
                          /\ Len(result[i].sentence) = 2
                          /\ result[i].score = Score(result[i].logprob, 1)

\* C9 witness: the call with beam_size 2 and max_caption_length 1 returned
C9_Witness ==
  /\ Returned /\ beam_size = 2 /\ max_caption_length = 1
  /\ Len(result) = 1

\* C10: with beam_size 1, once the first candidate of the only active caption
\* is the end token with a probability at or above the floor, no further
\* inference step is made and the result is that caption extended by the end
\* token, its logprob the parent's plus ln(p); with p = 0.9 at the first step
\* the result is [start, end] with logprob ln(0.9).
C10_EndOnTopStops ==
  (beam_size = 1 /\ Len(softmax) = 1 /\ EndOnTop(softmax[1])) =>
    /\ pc \in {"break", "done"}
    /\ calls.inference_step = iter
    /\ Returned =>
         /\ Len(result) = 1
         /\ result[1].sentence = partial_captions_list[1].sentence \o <<end_id>>
         /\ result[1].logprob =
              partial_captions_list[1].logprob + log(softmax[1][end_id + 1])
         /\ (iter = 1 /\ softmax[1][end_id + 1] = P(9, 1)) =>
              /\ result[1].sentence = <<start_id, end_id>>
              /\ result[1].logprob = -105360

\* C10 witness: the end token came first with 0.9 at the first of several
\* allowed steps, and the call returned
C10_Witness ==
  /\ Returned /\ beam_size = 1 /\ max_caption_length = 3 /\ iter = 1
  /\ EndOnTop(softmax[1])
  /\ softmax[1][end_id + 1] = P(9, 1)

-----------------------------------------------------------------------------
(* The expansion step of beam_search *)

\* the captions the call holds or has returned
Held == partial_captions.data \o complete_captions.data \o result

\* the call is between iterations or has returned, after at least one step
Stepped == pc \in {"loop", "break", "done"} /\ iter >= 1

\* c was built by the last iteration
Fresh(c) == c.state.step = iter

\* the caption c was expanded from, its new word and that word's probability
ParentOf(c) == partial_captions_list[c.state.pos + 1]
WordOf(c) == Last(c.sentence)
ProbOf(c) == softmax[c.state.pos + 1][WordOf(c) + 1]

\* w is one of the beam_size first candidates of row
Selected(row, w) == Cardinality(Before(row, w)) < beam_size

\* C11: a candidate below the floor never becomes a caption of the frontier
\* or of the complete set, even among the beam_size most probable words; no
\* lower-ranked word takes its place, so a parent whose selected candidates
\* are all below the floor has no child.
C11_FloorSkips ==
  Stepped =>
    \E held \in {Range(Held)} :
      /\ \A c \in held :
           Fresh(c) =>
             /\ AtLeastFloor(ProbOf(c))
             /\ Selected(softmax[c.state.pos + 1], WordOf(c))
             /\ c.sentence = ParentOf(c).sentence \o <<WordOf(c)>>
      /\ \A i \in 1..Len(partial_captions_list) :
           (\A w \in Vocab : Selected(softmax[i], w) => ~AtLeastFloor(softmax[i][w + 1]))
             => \A c \in held : ~(Fresh(c) /\ c.state.pos = i - 1)

\* C11 witness: of two parents expanded with beam_size 2, one has a selected
\* candidate below the floor and only one child, the other has two children
C11_Witness ==
  /\ pc = "loop" /\ beam_size = 2 /\ iter = 2
  /\ Len(partial_captions_list) = 2
  /\ \E w \in Vocab : /\ Selected(softmax[1], w)
                      /\ ~AtLeastFloor(softmax[1][w + 1])
  /\ Cardinality({k \in 1..Len(Held) : Fresh(Held[k]) /\ Held[k].state.pos = 0}) = 1
  /\ Cardinality({k \in 1..Len(Held) : Fresh(Held[k]) /\ Held[k].state.pos = 1}) = 2

\* C12: every expansion gives the child the logprob of its parent plus ln(p),
\* which is not above the parent's; every caption held has a logprob <= 0.
C12_LogprobMonotone ==
  /\ \A k \in 1..Len(Held) : Held[k].logprob <= 0
  /\ \A k \in 1..Len(partial_captions_list) : partial_captions_list[k].logprob <= 0
  /\ Stepped =>
       \A k \in 1..Len(Held) :
         Fresh(Held[k]) =>
           /\ Held[k].logprob = ParentOf(Held[k]).logprob + log(ProbOf(Held[k]))
           /\ Held[k].logprob <= ParentOf(Held[k]).logprob

\* C12 witness: a caption of the second iteration lies strictly below its
\* parent, which lies strictly below 0
C12_Witness ==
  /\ Stepped /\ iter = 2
  /\ \E k \in 1..Len(Held) :
       /\ Fresh(Held[k])
       /\ Held[k].logprob < ParentOf(Held[k]).logprob
       /\ ParentOf(Held[k]).logprob < 0

-----------------------------------------------------------------------------
(* Configuration, faults and scores *)

\* C14: with beam_size < 1 or max_caption_length < 1 no call of the model is
\* made and no list is returned (the search is rejected).
C14_InvalidConfigRejected ==
  (beam_size < 1 \/ max_caption_length < 1) =>
    /\ calls.feed_image = 0
    /\ calls.inference_step = 0
    /\ pc # "done"

\* C15: when feed_image or inference_step raises, the call that raised has
\* been made once and is not made again, the fault leaves beam_search as it
\* is, no list is returned and nothing more is done, also when
\* complete_captions is not empty.
C15_FaultPropagates ==
  raised = "ModelFault" =>
    /\ pc = "error"
    /\ result = <<>>
    /\ calls.feed_image = 1
    /\ calls.inference_step = iter
    /\ ~ENABLED Next

\* C15 witness: inference_step raised while complete_captions held a caption
C15_Witness ==
  /\ pc = "error" /\ raised = "ModelFault"
  /\ calls.inference_step = 2
  /\ complete_captions.data # <<>>

\* the score of a caption of logprob l whose sentence ends in end_id
Normalized(c) ==
  Score(c.logprob,
        IF length_normalization_factor > 0
        THEN Pow(Len(c.sentence), length_normalization_factor) ELSE 1)

\* C16: a caption of partial_captions, and a returned caption that does not
\* end in end_id, has score = logprob; a caption of complete_captions has
\* score = logprob / len(sentence)^factor when the factor is > 0 and
\* score = logprob when it is 0; logprob is the sum of the logarithms.
C16_NormalizedOnlyWhenComplete ==
  /\ \A k \in 1..Len(partial_captions.data) :
       partial_captions.data[k].score = Score(partial_captions.data[k].logprob, 1)
  /\ \A k \in 1..Len(complete_captions.data) :
       complete_captions.data[k].score = Normalized(complete_captions.data[k])
  /\ \A k \in 1..Len(result) :
       result[k].score = IF EndsWithEnd(result[k]) THEN Normalized(result[k])
                         ELSE Score(result[k].logprob, 1)
  /\ Stepped =>
       \A k \in 1..Len(complete_captions.data) :
         Fresh(complete_captions.data[k]) =>
           complete_captions.data[k].logprob =
             ParentOf(complete_captions.data[k]).logprob
               + log(ProbOf(complete_captions.data[k]))

\* C16 witness: with factor 1, a complete caption whose score differs from its
\* logprob next to a partial caption of two words with logprob below 0
C16_Witness ==
  /\ pc = "loop" /\ length_normalization_factor = 1
  /\ \E k \in 1..Len(complete_captions.data) :
       complete_captions.data[k].score # Score(complete_captions.data[k].logprob, 1)
  /\ \E k \in 1..Len(partial_captions.data) :
       /\ Len(partial_captions.data[k].sentence) = 2
       /\ partial_captions.data[k].logprob < 0

\* the sentence without a leading start_id and a trailing end_id
Stripped(sentence) ==
  LET t == IF sentence # <<>> /\ sentence[1] = start_id
           THEN Tail(sentence) ELSE sentence
  IN  IF t # <<>> /\ Last(t) = end_id THEN Front(t) ELSE t

\* C18: the words reported for a returned caption are its sentence without
\* the leading start_id and a trailing end_id; no other word is dropped,
\* for complete and for partial captions.
C18_OnlySentinelsStripped ==
  Returned =>
    \A k \in 1..Len(result) :
      reported(result[k].sentence) = Stripped(result[k].sentence)

\* C19: with max_caption_length >= 1, beam_search ends (returns or raises);
\* feed_image is called exactly once and inference_step at most
\* max_caption_length - 1 times, whatever the model returns.
C19_Terminates ==
  /\ <>(pc \in {"done", "error"})
  /\ [](max_caption_length >= 1 =>
          /\ calls.feed_image <= 1
          /\ calls.inference_step <= max_caption_length - 1
          /\ (pc # "start" => calls.feed_image = 1))

\* C19 witness: a search that returned after max_caption_length - 1 calls of
\* inference_step, the frontier still holding captions
C19_Witness ==
  /\ Returned /\ max_caption_length = MaxLen
  /\ calls.feed_image = 1
  /\ calls.inference_step = max_caption_length - 1
  /\ \E k \in 1..Len(result) : ~EndsWithEnd(result[k])

\* C20: every caption of partial_captions and complete_captions, every
\* caption taken from them for expansion and every returned caption has a
\* sentence that is not empty and begins with start_id.
C20_StartsWithStart ==
  /\ \A k \in 1..Len(Held) :
       Held[k].sentence # <<>> /\ Held[k].sentence[1] = start_id
  /\ \A k \in 1..Len(partial_captions_list) :
       /\ partial_captions_list[k].sentence # <<>>
       /\ partial_captions_list[k].sentence[1] = start_id

\* C20 witness: a returned caption of three words next to a complete one
C20_Witness ==
  /\ Returned
  /\ \E k \in 1..Len(result) : Len(result[k].sentence) = 3
  /\ \E k \in 1..Len(result) : EndsWithEnd(result[k])

-----------------------------------------------------------------------------
(* Two beam_search calls at once against a reentrant model: SpecTwo *)

Calls == {1, 2}
Images == {0, 1, 2}

\* the answers of the reentrant model: a function of what it is fed
Responses ==
  << <<P(4, 1), P(2, 1), P(4, 1)>>,
     <<P(5, 1), P(4, 1), P(1, 1)>>,
     <<P(5, 2), P(9, 1), P(5, 2)>>,
     <<P(1, 13), P(1, 12), P(1, 0)>> >>

\* initial_state = self.model.feed_image(sess, encoded_image)
model_feed_image(image) == [image |-> image, fed |-> <<>>]

\* softmax and new state of model.inference_step for one row of the batch
model_softmax(input, state) ==
  Responses[((state.image + input + Len(state.fed)) % Len(Responses)) + 1]
model_new_state(input, state) == [state EXCEPT !.fed = Append(@, input)]

\* input_feed, state_feed and the answer of model.inference_step
inference_softmax(list) ==
  [k \in 1..Len(list) |-> model_softmax(Last(list[k].sentence), list[k].state)]
inference_new_states(list) ==
  [k \in 1..Len(list) |-> model_new_state(Last(list[k].sentence), list[k].state)]

\* the initial beam and the partial_captions holding it
initial_partial(image) ==
  push(TopN(beam_size), Caption(<<start_id>>, model_feed_image(image), 0, Score(0, 1)))

\* mutant of store: the two TopN are attributes shared by the calls
store_shared(p, locals) ==
  [q \in Calls |->
     IF q = p THEN locals
     ELSE [frame[q] EXCEPT !.partial_captions = locals.partial_captions,
                           !.complete_captions = locals.complete_captions]]

\* assignment to the local variables of call p
store(p, locals) == [frame EXCEPT ![p] = locals]

InitTwo ==
  /\ pc = "idle"
  /\ beam_size \in 0..MaxBeam
  /\ max_caption_length \in 0..MaxLen
  /\ length_normalization_factor \in {0, 1}
  /\ partial_captions = TopN(0)
  /\ complete_captions = TopN(0)
  /\ iter = 0
  /\ partial_captions_list = <<>>
  /\ softmax = <<>>
  /\ new_states = <<>>
  /\ result = <<>>
  /\ raised = "none"
  /\ calls = [feed_image |-> 0, inference_step |-> 0]
  /\ TopNIdle
  /\ \E images \in [Calls -> Images] :
       frame = [p \in Calls |->
                  [pc |-> "start", image |-> images[p],
                   partial_captions |-> TopN(0), complete_captions |-> TopN(0),
                   iter |-> 0, partial_captions_list |-> <<>>,
                   softmax |-> <<>>, new_states |-> <<>>, result |-> <<>>]]

\* feed_image, the initial beam and the two TopN of call p
Enter(p) ==
  /\ frame[p].pc = "start"
  /\ frame' = store(p, [frame[p] EXCEPT
                          !.pc = "loop",
                          !.partial_captions = initial_partial(frame[p].image),
                          !.complete_captions = TopN(beam_size)])
  /\ UNCHANGED <<beam_vars, topn_vars>>

\* the first half of an iteration of call p, up to the answer of inference_step
Infer(p) ==
  /\ frame[p].pc = "loop"
  /\ in_range(frame[p].iter)
  /\ frame' =
       IF extract_raises(frame[p].partial_captions)
       THEN store(p, [frame[p] EXCEPT !.pc = "error"])
       ELSE LET list == extract_data(frame[p].partial_captions, FALSE)
            IN  store(p, [frame[p] EXCEPT
                            !.pc = "expand",
                            !.partial_captions_list = list,
                            !.partial_captions = reset(extract(@)),
                            !.softmax = inference_softmax(list),
                            !.new_states = inference_new_states(list)])
  /\ UNCHANGED <<beam_vars, topn_vars>>

\* the second half of an iteration of call p: the expansion and the break test
Expand(p) ==
  /\ frame[p].pc = "expand"
  /\ \E acc \in {expand_captions(
                   Acc(frame[p].partial_captions, frame[p].complete_captions, "none"),
                   frame[p].partial_captions_list, frame[p].softmax,
                   frame[p].new_states, 1)} :
       frame' = store(p, [frame[p] EXCEPT
                            !.iter = @ + 1,
                            !.partial_captions = acc.partial,
                            !.complete_captions = acc.complete,
                            !.pc = IF acc.raised # "none" \/ size_raises(acc.partial)
                                   THEN "error"
                                   ELSE IF size(acc.partial) = 0 THEN "break"
                                   ELSE "loop"])
  /\ UNCHANGED <<beam_vars, topn_vars>>

\* the fallback and the return of call p
Return(p) ==
  /\ frame[p].pc \in {"loop", "break"}
  /\ frame[p].pc = "loop" => ~in_range(frame[p].iter)
  /\ frame' =
       IF \/ size_raises(frame[p].complete_captions)
          \/ extract_raises(IF fall_back(frame[p].complete_captions,
                                         frame[p].partial_captions)
                            THEN frame[p].partial_captions
                            ELSE frame[p].complete_captions)
       THEN store(p, [frame[p] EXCEPT !.pc = "error"])
       ELSE LET fb == fall_back(frame[p].complete_captions, frame[p].partial_captions)
            IN  store(p, [frame[p] EXCEPT
                            !.pc = "done",
                            !.result = returned(frame[p].complete_captions,
                                                frame[p].partial_captions),
                            !.partial_captions = IF fb THEN extract(@) ELSE @,
                            !.complete_captions = IF fb THEN @ ELSE extract(@)])
  /\ UNCHANGED <<beam_vars, topn_vars>>

NextTwo == \E p \in Calls : Enter(p) \/ Infer(p) \/ Expand(p) \/ Return(p)

SpecTwo == InitTwo /\ [][NextTwo]_vars

\* beam_search run from start to end with no other call in progress
RECURSIVE alone_loop(_, _, _)
alone_loop(partial, complete, i) ==
  IF ~in_range(i) THEN returned(complete, partial)
  ELSE LET list == extract_data(partial, FALSE)
           acc == expand_captions(Acc(reset(extract(partial)), complete, "none"),
                                  list, inference_softmax(list),
                                  inference_new_states(list), 1)
       IN  IF size(acc.partial) = 0 THEN returned(acc.complete, acc.partial)
           ELSE alone_loop(acc.partial, acc.complete, i + 1)

alone(image) == alone_loop(initial_partial(image), TopN(beam_size), 0)

Done(p) == frame # <<>> /\ frame[p].pc = "done"

\* two captions of the list have the same score
HasTie(list) ==
  \E j, k \in 1..Len(list) :
    j < k /\ ScoreGeq(list[j], list[k]) /\ ScoreGeq(list[k], list[j])

C17_Isolated ==
  \A p \in Calls : Done(p) => frame[p].result = alone(frame[p].image)

\* C17 witness: call 1 returned while call 2, working on another image, was
\* in the middle of an iteration, and what the two hold differs
C17_Witness ==
  /\ Done(1) /\ frame[1].result # <<>>
  /\ frame[2].pc = "expand" /\ frame[2].iter = 1
  /\ frame[1].image # frame[2].image
  /\ frame[2].partial_captions_list # frame[1].partial_captions_list

-----------------------------------------------------------------------------
(* Selection, routing and the batches of beam_search *)

\* the captions beam_search holds in its two sets
Alive == partial_captions.data \o complete_captions.data

\* C21: no two captions of partial_captions and complete_captions hold the
\* same state object, and a caption built by an iteration holds a state other
\* than its parent's.
C21_StateExclusive ==
  /\ \A j, k \in 1..Len(Alive) : j # k => Alive[j].state # Alive[k].state
  /\ Stepped =>
       \A k \in 1..Len(Alive) :
         Fresh(Alive[k]) => Alive[k].state # ParentOf(Alive[k]).state

\* the beams built from the candidates wp of the parent at batch position i
RECURSIVE beams_of(_, _)
beams_of(i, wp) ==
  IF wp = <<>> THEN <<>>
  ELSE (IF skipped(Head(wp).p) THEN <<>>
        ELSE <<new_beam(partial_captions_list[i], new_states[i],
                        Head(wp).w, Head(wp).p)>>)
       \o beams_of(i, Tail(wp))

\* every beam built by the last iteration, from batch position i on
RECURSIVE Generated(_)
Generated(i) ==
  IF i > Len(partial_captions_list) THEN <<>>
  ELSE beams_of(i, words_and_probs(softmax[i])) \o Generated(i + 1)

NotEnd(c) == ~EndsWithEnd(c)

\* an iteration has ended and the search goes on or has left the loop
AfterStep == pc \in {"loop", "break"} /\ iter >= 1

\* C22: after an iteration partial_captions holds the beam_size highest-scored
\* of all beams of that iteration that do not end in end_id (all of them if
\* there are fewer), the beams of all parents taken together; the beams ending
\* in end_id are in no other set than complete_captions.
C22_FrontierHoldsHighest ==
  [](AfterStep =>
      \E g \in {Generated(1)} :
        \E open \in {SelectSeq(g, NotEnd)} :
          /\ HighestOf(SeqToBag(ScoresOf(partial_captions.data)),
                       SeqToBag(ScoresOf(open)),
                       Min(beam_size, Len(open)))
          /\ Range(partial_captions.data) \subseteq Range(open)
          /\ \A k \in 1..Len(complete_captions.data) :
               Fresh(complete_captions.data[k]) =>
                 /\ complete_captions.data[k] \in Range(g)
                 /\ EndsWithEnd(complete_captions.data[k]))

\* C22 witness: two parents gave more than beam_size open beams, and the
\* frontier holds a beam of each parent next to a fresh complete caption
C22_Witness ==
  /\ AfterStep /\ beam_size = 2 /\ iter = 2
  /\ Len(SelectSeq(Generated(1), NotEnd)) > 2
  /\ \E j, k \in 1..Len(partial_captions.data) :
       partial_captions.data[j].state.pos # partial_captions.data[k].state.pos
  /\ \E k \in 1..Len(complete_captions.data) : Fresh(complete_captions.data[k])

\* C23: the candidates of the parent at batch position i are the beam_size
\* words of highest probability of softmax[i], equal probabilities in the
\* order of the word ids; a beam of that parent holds new_states[i], and a
\* parent has at most beam_size beams.
C23_TopBeamSizeWords ==
  [](Stepped =>
      /\ Len(softmax) = Len(partial_captions_list)
      /\ \A i \in 1..Len(partial_captions_list) :
           \E wp \in {words_and_probs(softmax[i])} :
             /\ Len(wp) = Min(beam_size, Cardinality(Vocab))
             /\ \A k \in 1..Len(wp) :
                  /\ Cardinality(Before(softmax[i], wp[k].w)) = k - 1
                  /\ wp[k].p = softmax[i][wp[k].w + 1]
             /\ Len(beams_of(i, wp)) <= beam_size
      /\ \A c \in Range(Held) :
           Fresh(c) =>
             \A i \in 1..Len(partial_captions_list) :
               Front(c.sentence) = partial_captions_list[i].sentence
                 => c.state = new_states[i])

\* C23 witness: with beam_size 2 a row with two equal probabilities after the
\* highest one, the word of the lower id selected and the other one not
C23_Witness ==
  /\ AfterStep /\ beam_size = 2
  /\ \E i \in 1..Len(softmax) :
       /\ softmax[i][1] = softmax[i][3]
       /\ PLt(softmax[i][1], softmax[i][2])
       /\ \E k \in 1..Len(partial_captions.data) :
            /\ partial_captions.data[k].state = new_states[i]
            /\ WordOf(partial_captions.data[k]) = 0

\* C24: for beam_size >= 1 every batch handed to inference_step holds between
\* 1 and beam_size captions, and the loop is left as soon as partial_captions
\* is empty.
C24_BatchNeverEmpty ==
  beam_size >= 1 =>
    /\ calls.inference_step >= 1 =>
         /\ Len(partial_captions_list) >= 1
         /\ Len(partial_captions_list) <= beam_size
    /\ pc = "loop" => Len(partial_captions.data) >= 1
    /\ pc = "break" => Len(partial_captions.data) = 0

\* C24 witness: with beam_size 1 the only caption was completed by the first
\* iteration and the loop was left before max_caption_length - 1 iterations
C24_Witness ==
  /\ pc = "break" /\ beam_size = 1
  /\ iter = 1 /\ LoopGuard
  /\ calls.inference_step = 1
  /\ Len(complete_captions.data) = 1

-----------------------------------------------------------------------------
(* The life of a caption *)

\* the captions of the sequence t that the sequence s does not hold
Entered(s, t) == Range(t) \ Range(s)

\* C25: a caption enters partial_captions or complete_captions only in the
\* step that builds it, one word longer than every caption built before, so
\* a caption that was dropped does not come back; the returned captions were
\* in one of the two sets; the batch of inference_step is the content of
\* partial_captions, holds no caption ending in end_id, and every new caption
\* extends a caption of the batch.
C25_LifeCycle ==
  [][ /\ \A k \in 1..Len(Alive) : Len(Alive[k].sentence) <= iter + 1
      /\ \A c \in Entered(partial_captions.data, partial_captions'.data)
                    \cup Entered(complete_captions.data, complete_captions'.data) :
           /\ c.state.step = iter'
           /\ Len(c.sentence) = iter' + 1
           /\ iter' >= 1 =>
                /\ iter' = iter + 1
                /\ \E i \in 1..Len(partial_captions_list') :
                     Front(c.sentence) = partial_captions_list'[i].sentence
      /\ Range(result') \subseteq Range(Alive)
      /\ iter' # iter =>
           /\ partial_captions_list' = partial_captions.data
           /\ \A i \in 1..Len(partial_captions_list') :
                /\ ~EndsWithEnd(partial_captions_list'[i])
                /\ partial_captions_list'[i] \notin Range(complete_captions.data)
    ]_vars

\* C25 witness: two captions were expanded, a beam built from them was
\* dropped from the full frontier and a caption skipped by the floor
C25_Witness ==
  /\ AfterStep /\ iter = 2 /\ beam_size = 2
  /\ Len(partial_captions_list) = 2
  /\ Len(partial_captions.data) = 2
  /\ \E g \in Range(Generated(1)) : g \notin Range(Alive)
  /\ \E i \in 1..Len(softmax) :
       \E w \in Vocab : Selected(softmax[i], w) /\ ~AtLeastFloor(softmax[i][w + 1])

\* C26: when the k-th iteration begins every caption of partial_captions has
\* a sentence of k words, the captions of a batch have the same length, and
\* for max_caption_length >= 1 no returned sentence is longer than
\* max_caption_length.
C26_SameLength ==
  /\ pc \in {"loop", "break"} =>
       \A k \in 1..Len(partial_captions.data) :
         Len(partial_captions.data[k].sentence) = iter + 1
  /\ iter >= 1 =>
       \A k \in 1..Len(partial_captions_list) :
         Len(partial_captions_list[k].sentence) = iter
  /\ (Returned /\ max_caption_length >= 1) =>
       \A k \in 1..Len(result) : Len(result[k].sentence) <= max_caption_length

\* C26 witness: the third iteration would begin with two captions of three words
C26_Witness ==
  /\ pc = "loop" /\ iter = 2
  /\ Len(partial_captions.data) = 2
  /\ \A k \in 1..Len(partial_captions.data) :
       Len(partial_captions.data[k].sentence) = 3

\* end_id occurs in the sentence at a place other than the last one
EndInside(sentence) ==
  \E k \in 1..(Len(sentence) - 1) : sentence[k] = end_id

\* C27: with start_id # end_id, a caption of complete_captions has end_id as
\* its last word and nowhere else, and no caption of partial_captions or of a
\* batch holds end_id.
C27_EndOnlyLast ==
  start_id # end_id =>
    /\ \A k \in 1..Len(complete_captions.data) :
         /\ EndsWithEnd(complete_captions.data[k])
         /\ ~EndInside(complete_captions.data[k].sentence)
    /\ \A k \in 1..Len(partial_captions.data) :
         /\ ~EndsWithEnd(partial_captions.data[k])
         /\ ~EndInside(partial_captions.data[k].sentence)
    /\ \A k \in 1..Len(partial_captions_list) :
         /\ ~EndsWithEnd(partial_captions_list[k])
         /\ ~EndInside(partial_captions_list[k].sentence)

\* C27 witness: after two iterations a complete caption of three words next
\* to a partial one of three words
C27_Witness ==
  /\ pc = "loop" /\ iter = 2
  /\ \E k \in 1..Len(complete_captions.data) :
       Len(complete_captions.data[k].sentence) = 3
  /\ \E k \in 1..Len(partial_captions.data) :
       partial_captions.data[k].sentence[2] # start_id

\* C28: for beam_size >= 1 and max_caption_length >= 1 no assertion of TopN
\* fails in beam_search: while the search runs both sets are usable, and the
\* set extracted for the return was usable.
C28_NeverExhausted ==
  (beam_size >= 1 /\ max_caption_length >= 1) =>
    /\ raised # "AssertionError"
    /\ pc \in {"loop", "break"} =>
         /\ ~extract_raises(partial_captions) /\ ~push_raises(partial_captions)
         /\ ~size_raises(partial_captions)
         /\ ~extract_raises(complete_captions) /\ ~push_raises(complete_captions)
         /\ ~size_raises(complete_captions)
    /\ Returned =>
         (partial_captions.none # complete_captions.none)

\* C28 witness: the loop was left early with both sets empty and the empty
\* frontier was extracted for the return
C28_Witness ==
  /\ Returned /\ beam_size = 2 /\ raised = "none"
  /\ iter = 1 /\ LoopGuard
  /\ partial_captions.none /\ ~complete_captions.none
  /\ result = <<>>

\* every candidate of the parent at batch position i is below the floor
AllBelowFloor(i) ==
  \A w \in Vocab : Selected(softmax[i], w) => ~AtLeastFloor(softmax[i][w + 1])

\* C30: for beam_size >= 1 and max_caption_length >= 1 the returned list is
\* empty only if complete_captions is empty and in the last iteration every
\* candidate of every parent was below the floor; if the most probable word
\* of some parent reaches the floor, a caption is returned.
C30_EmptyOnlyBelowFloor ==
  (Returned /\ beam_size >= 1 /\ max_caption_length >= 1) =>
    /\ result = <<>> =>
         /\ iter >= 1
         /\ complete_captions.data = <<>> /\ ~complete_captions.none
         /\ \A i \in 1..Len(partial_captions_list) : AllBelowFloor(i)
    /\ (\/ iter = 0
        \/ \E i \in 1..Len(partial_captions_list) :
             \E w \in Vocab : /\ Before(softmax[i], w) = {}
                              /\ AtLeastFloor(softmax[i][w + 1]))
         => result # <<>>

\* C30 witness: two parents of the second iteration had only candidates below
\* the floor, nothing was complete, and the empty list was returned
C30_Witness ==
  /\ Returned /\ beam_size = 2 /\ iter = 2
  /\ Len(partial_captions_list) = 2
  /\ \A i \in 1..Len(partial_captions_list) : AllBelowFloor(i)
  /\ result = <<>>

-----------------------------------------------------------------------------
(* Longer searches against the reentrant model: SpecLong *)

InitLong ==
  /\ pc = "idle"
  /\ beam_size \in 1..MaxBeam
  /\ max_caption_length \in 1..MaxLong
  /\ length_normalization_factor \in {0, 1}
  /\ partial_captions = TopN(0)
  /\ complete_captions = TopN(0)
  /\ iter = 0
  /\ partial_captions_list = <<>>
  /\ softmax = <<>>
  /\ new_states = <<>>
  /\ result = <<>>
  /\ raised = "none"
  /\ calls = [feed_image |-> 0, inference_step |-> 0]
  /\ TopNIdle
  /\ \E images \in [Calls -> 0..(Len(Responses) - 1)] :
       frame = [p \in Calls |->
                  [pc |-> "start", image |-> images[p],
                   partial_captions |-> TopN(0), complete_captions |-> TopN(0),
                   iter |-> 0, partial_captions_list |-> <<>>,
                   softmax |-> <<>>, new_states |-> <<>>, result |-> <<>>]]

SpecLong == InitLong /\ [][NextTwo]_vars

\* call p is inside the loop of beam_search
Searching(p) == frame[p].pc \in {"loop", "expand", "break"}

\* C29: while a call is in its loop complete_captions never gets shorter; a
\* caption leaves it only for a caption of strictly higher score pushed on
\* the full set, which then holds no score below the one that left; the
\* lowest score of a full set never decreases; and with a full
\* complete_captions the call goes on to the next iteration instead of
\* returning.
C29_CompleteOnlyImproves ==
  [][ \A p \in Calls :
        /\ (Searching(p) /\ frame'[p].pc \in {"loop", "expand", "break"}) =>
             \E old \in {frame[p].complete_captions.data} :
               \E new \in {frame'[p].complete_captions.data} :
                 /\ Len(new) >= Len(old)
                 /\ \A x \in Range(old) \ Range(new) :
                      /\ Len(new) = beam_size
                      /\ \E y \in Range(new) \ Range(old) : ScoreGt(y, x)
                      /\ \A y \in Range(new) : ScoreGeq(y, x)
                 /\ Len(old) = beam_size =>
                      \A y \in Range(new) : \E x \in Range(old) : ScoreGeq(y, x)
        /\ (/\ frame[p].pc = "loop"
            /\ in_range(frame[p].iter)
            /\ Len(frame[p].complete_captions.data) = beam_size) =>
             /\ frame'[p].pc \in {"loop", "expand"}
             /\ ENABLED Infer(p)
    ]_vars

\* C29 witness: of two calls for the same image, the one an iteration ahead
\* has lost a caption the other still holds in its full complete_captions
C29_Witness ==
  /\ frame[1].image = frame[2].image
  /\ frame[2].pc = "loop" /\ frame[2].iter = 2
  /\ Len(frame[2].complete_captions.data) = beam_size
  /\ frame[1].pc \in {"loop", "break"} /\ frame[1].iter = 3
  /\ Len(frame[1].complete_captions.data) = beam_size
  /\ \E x \in Range(frame[2].complete_captions.data) :
       x \notin Range(frame[1].complete_captions.data)

====
